---- MODULE Spec2Model ----
(***************************************************************************)
(* Model of the Kaiser-Squires smoothing gridsearch of                     *)
(* docs/assets/static_notebooks/planar_reconstruction.ipynb (the code cell *)
(* at notebook lines 190-206):                                             *)
(*                                                                         *)
(*   194  snr_max = 0                                                      *)
(*   195  smooth_max = 0                                                   *)
(*   196  for i in range(30):                                              *)
(*   197      smoothed_ks = ndimage.gaussian_filter(np.real(ks), float(i+1))*)
(*   198      snr_iter = stats.snr(np.real(kappa_true), np.real(smoothed_ks))*)
(*   199      if snr_iter > snr_max:                                       *)
(*   200          snr_max = snr_iter                                       *)
(*   201          smooth_max = float(i+1)                                  *)
(*   203  optimal_ks = ndimage.gaussian_filter(np.real(ks), smooth_max)    *)
(*                                                                         *)
(* One action per statement; pc is the line about to execute.              *)
(***************************************************************************)
EXTENDS Integers, Sequences, FiniteSets, TLC

\* Largest number of scan steps explored.  The notebook's literal is 30
\* (line 196); the loop body does not depend on the literal, so the scan is
\* modelled for every step count 0..MaxScaleSteps.
MaxScaleSteps == 3

\* Largest number of re-executions of the cell (a notebook cell can be run
\* again in the same kernel, with the names of the earlier run still bound).
MaxRuns == 2

\* Values the scorer may return (SNR in dB may be negative, zero or positive).
Scores == {-1, 0, 1, 2}

\* Side lengths N of the N x N fields.
Shapes == {4, 8}

\* Abstract pixel contents of a field's real part, and of its imaginary part.
RealParts == {1, 2}
ImagParts == {0, 1}

VARIABLES
    ks,               \* line 191: the raw Kaiser-Squires estimate (complex field)
    kappa_true,       \* line 71: the ground truth (complex field, imaginary part 0)
    max_scale_steps,  \* the argument of range() at line 196
    snr_tab,          \* the scorer's value for this kappa_true and ks blurred at each scale
    pc,               \* the line about to execute, "done" or "error"
    snr_max,          \* line 194 / 200
    smooth_max,       \* line 195 / 201
    it,               \* the range iterator of line 196: the next index it yields
    i,                \* the loop variable of line 196
    smoothed_ks,      \* line 197
    snr_iter,         \* line 198
    optimal_ks,       \* line 203
    err,              \* the exception that ended the cell, "none" if none
    blurs,            \* log of the sigmas passed to gaussian_filter in this execution
    scored,           \* log of the scales whose score stats.snr returned in this execution
    runs,             \* number of completed executions followed by a re-execution
    prev              \* the result of the previous execution of the cell

vars == <<ks, kappa_true, max_scale_steps, snr_tab, pc, snr_max, smooth_max, it, i,
          smoothed_ks, snr_iter, optimal_ks, err, blurs, scored, runs, prev>>

inputs == <<ks, kappa_true, max_scale_steps, snr_tab>>

\* A field: its shape, its content, and the Gaussian blur applied to it so far
\* (sigma = 0: none).  The blur of a field is kept symbolic: blurring the same
\* content at different sigmas gives fields that differ in sigma.
Field(sh, re, im, sg) == [shape |-> sh, re |-> re, im |-> im, sigma |-> sg]

\* A name that is not bound yet.
NoField == Field(0, 0, 0, 0)

\* np.real: the real part of a field.
np_real(x) == [x EXCEPT !.im = 0]

\* scipy.ndimage.gaussian_filter(input, sigma): a new field of the same shape;
\* sigma = 0 filters along no axis and returns a copy of the input.
gaussian_filter(input, sigma) == [input EXCEPT !.sigma = sigma]

\* float(i+1): the whole-pixel scale of loop index i (exact for small integers).
ScaleOf(idx) == idx + 1

\* stats.snr raises when its two fields cannot be subtracted elementwise.
SameShape(x, y) == x.shape = y.shape

\* stats.snr(reference, candidate) for reference = np.real(kappa_true) and a
\* candidate obtained by blurring np.real(ks): an arbitrary real per scale.
snr(reference, candidate) == snr_tab[candidate.sigma]

\* Variants of the comparison of line 199: non-strict, and unequal.
Better_OrEqual(score, best) == score >= best

Better_NotEqual(score, best) == score /= best

\* line 199: the strict comparison that decides whether the best is replaced.
Better(score, best) == score > best

\* The triple the search hands on: best scale, best smoothed field, best score.
Result == [scale |-> smooth_max, field |-> optimal_ks, score |-> snr_max]

NoResult == [scale |-> 0, field |-> NoField, score |-> 0]

Init ==
    /\ ks \in {Field(sh, re, im, 0) : sh \in Shapes, re \in RealParts, im \in ImagParts}
    /\ kappa_true \in {Field(sh, re, 0, 0) : sh \in Shapes, re \in RealParts}
    /\ max_scale_steps \in 0..MaxScaleSteps
    /\ snr_tab \in [1..max_scale_steps -> Scores]
    /\ pc = "l194"
    /\ snr_max = 0
    /\ smooth_max = 0
    /\ it = 0
    /\ i = 0
    /\ smoothed_ks = NoField
    /\ snr_iter = 0
    /\ optimal_ks = NoField
    /\ err = "none"
    /\ blurs = <<>>
    /\ scored = <<>>
    /\ runs = 0
    /\ prev = NoResult

\* Variant of lines 194-195 without line 194: the running maximum keeps the
\* value an earlier execution left in it.
InitRunningMax_KeepsScore ==
    /\ pc = "l194"
    /\ smooth_max' = 0
    /\ blurs' = <<>>
    /\ scored' = <<>>
    /\ pc' = "l196enter"
    /\ UNCHANGED <<inputs, snr_max, it, i, smoothed_ks, snr_iter, optimal_ks, err,
                   runs, prev>>

\* Variant of lines 194-195 without line 195: the running best scale keeps the
\* value an earlier execution left in it.
InitRunningMax_KeepsScale ==
    /\ pc = "l194"
    /\ snr_max' = 0
    /\ blurs' = <<>>
    /\ scored' = <<>>
    /\ pc' = "l196enter"
    /\ UNCHANGED <<inputs, smooth_max, it, i, smoothed_ks, snr_iter, optimal_ks, err,
                   runs, prev>>

\* lines 194-195: snr_max = 0 ; smooth_max = 0
InitRunningMax ==
    /\ pc = "l194"
    /\ snr_max' = 0
    /\ smooth_max' = 0
    /\ blurs' = <<>>
    /\ scored' = <<>>
    /\ pc' = "l196enter"
    /\ UNCHANGED <<inputs, it, i, smoothed_ks, snr_iter, optimal_ks, err, runs, prev>>

\* line 196, on entry: range(max_scale_steps) makes a fresh iterator
ForEnter ==
    /\ pc = "l196enter"
    /\ it' = 0
    /\ pc' = "l196"
    /\ UNCHANGED <<inputs, snr_max, smooth_max, i, smoothed_ks, snr_iter, optimal_ks,
                   err, blurs, scored, runs, prev>>

\* Variant of line 196 that stops one index early: range(max_scale_steps - 1).
ForNext_StopsEarly ==
    /\ pc = "l196"
    /\ IF it < max_scale_steps - 1
          THEN /\ i' = it
               /\ it' = it + 1
               /\ pc' = "l197"
          ELSE /\ pc' = "l203"
               /\ UNCHANGED <<i, it>>
    /\ UNCHANGED <<inputs, snr_max, smooth_max, smoothed_ks, snr_iter, optimal_ks,
                   err, blurs, scored, runs, prev>>

\* line 196: the iterator yields the next index, or the loop ends
ForNext ==
    /\ pc = "l196"
    /\ IF it < max_scale_steps
          THEN /\ i' = it
               /\ it' = it + 1
               /\ pc' = "l197"
          ELSE /\ pc' = "l203"
               /\ UNCHANGED <<i, it>>
    /\ UNCHANGED <<inputs, snr_max, smooth_max, smoothed_ks, snr_iter, optimal_ks,
                   err, blurs, scored, runs, prev>>

\* Variant of line 197 that filters in place: gaussian_filter(ks, s, output=ks).
Blur_InPlace ==
    /\ pc = "l197"
    /\ smoothed_ks' = gaussian_filter(np_real(ks), ScaleOf(i))
    /\ ks' = gaussian_filter(np_real(ks), ScaleOf(i))
    /\ blurs' = Append(blurs, ScaleOf(i))
    /\ pc' = "l198"
    /\ UNCHANGED <<kappa_true, max_scale_steps, snr_tab, snr_max, smooth_max, it, i,
                   snr_iter, optimal_ks, err, scored, runs, prev>>

\* line 197: smoothed_ks = ndimage.gaussian_filter(np.real(ks), float(i+1))
Blur ==
    /\ pc = "l197"
    /\ smoothed_ks' = gaussian_filter(np_real(ks), ScaleOf(i))
    /\ blurs' = Append(blurs, ScaleOf(i))
    /\ pc' = "l198"
    /\ UNCHANGED <<inputs, snr_max, smooth_max, it, i, snr_iter, optimal_ks,
                   err, scored, runs, prev>>

\* line 198: snr_iter = stats.snr(np.real(kappa_true), np.real(smoothed_ks))
Score ==
    /\ pc = "l198"
    /\ IF SameShape(np_real(kappa_true), np_real(smoothed_ks))
          THEN /\ snr_iter' = snr(np_real(kappa_true), np_real(smoothed_ks))
               /\ scored' = Append(scored, smoothed_ks.sigma)
               /\ pc' = "l199"
               /\ UNCHANGED err
          ELSE /\ err' = "DimensionMismatch"
               /\ pc' = "error"
               /\ UNCHANGED <<snr_iter, scored>>
    /\ UNCHANGED <<inputs, snr_max, smooth_max, it, i, smoothed_ks, optimal_ks,
                   blurs, runs, prev>>

\* Variant of lines 199-201 without line 200: the running maximum is never raised.
Compare_ForgetsScore ==
    /\ pc = "l199"
    /\ IF Better(snr_iter, snr_max)
          THEN /\ smooth_max' = ScaleOf(i)
               /\ UNCHANGED snr_max
          ELSE UNCHANGED <<snr_max, smooth_max>>
    /\ pc' = "l196"
    /\ UNCHANGED <<inputs, it, i, smoothed_ks, snr_iter, optimal_ks,
                   err, blurs, scored, runs, prev>>

\* Variant of lines 199-201 whose line 201 stores float(i+2).
Compare_OffByOne ==
    /\ pc = "l199"
    /\ IF Better(snr_iter, snr_max)
          THEN /\ snr_max' = snr_iter
               /\ smooth_max' = ScaleOf(i) + 1
          ELSE UNCHANGED <<snr_max, smooth_max>>
    /\ pc' = "l196"
    /\ UNCHANGED <<inputs, it, i, smoothed_ks, snr_iter, optimal_ks,
                   err, blurs, scored, runs, prev>>

\* lines 199-201: if snr_iter > snr_max: snr_max = snr_iter ; smooth_max = float(i+1)
Compare ==
    /\ pc = "l199"
    /\ IF Better(snr_iter, snr_max)
          THEN /\ snr_max' = snr_iter
               /\ smooth_max' = ScaleOf(i)
          ELSE UNCHANGED <<snr_max, smooth_max>>
    /\ pc' = "l196"
    /\ UNCHANGED <<inputs, it, i, smoothed_ks, snr_iter, optimal_ks,
                   err, blurs, scored, runs, prev>>

\* line 203: optimal_ks = ndimage.gaussian_filter(np.real(ks), smooth_max)
Final ==
    /\ pc = "l203"
    /\ optimal_ks' = gaussian_filter(np_real(ks), smooth_max)
    /\ blurs' = Append(blurs, smooth_max)
    /\ pc' = "done"
    /\ UNCHANGED <<inputs, snr_max, smooth_max, it, i, smoothed_ks, snr_iter,
                   err, scored, runs, prev>>

\* The cell is executed again on the same inputs; every name keeps the value
\* the earlier execution left in it.
Rerun ==
    /\ pc = "done"
    /\ runs < MaxRuns
    /\ prev' = Result
    /\ runs' = runs + 1
    /\ pc' = "l194"
    /\ UNCHANGED <<inputs, snr_max, smooth_max, it, i, smoothed_ks, snr_iter,
                   optimal_ks, err, blurs, scored>>

\* One execution of the cell's statements.
Step == InitRunningMax \/ ForEnter \/ ForNext \/ Blur \/ Score \/ Compare \/ Final

Next == Step \/ Rerun

Spec == Init /\ [][Next]_vars

\* The interpreter runs the cell's statements one after the other without
\* suspension; whether the cell is executed again is up to the user.
FairSpec == Spec /\ WF_vars(Step)

(***************************************************************************)
(* Properties of the gridsearch.                                           *)
(***************************************************************************)

\* The two input fields have the same shape.
Valid == SameShape(ks, kappa_true)

\* The scales the scan covers.
Scanned == 1..max_scale_steps

\* The greatest element of a non-empty finite set of integers.
MaxOf(S) == CHOOSE m \in S : \A x \in S : x <= m

\* The least element of a non-empty finite set of integers.
MinOf(S) == CHOOSE m \in S : \A x \in S : m <= x

\* The greatest score over the scanned scales (for a non-empty scan).
TopScore == MaxOf({snr_tab[s] : s \in Scanned})

\* Some scanned scale scores strictly above the initial running maximum 0.
SomePositive == \E s \in Scanned : snr_tab[s] > 0

\* seq is <<1, 2, ..., Len(seq)>>.
CountsUp(seq) == \A j \in 1..Len(seq) : seq[j] = j

Finished == pc = "done" /\ Valid /\ max_scale_steps >= 1

C2_TieBreakWhenPositive ==
    (Finished /\ SomePositive) =>
        /\ \A s1, s2 \in Scanned :
              ( /\ s1 < s2
                /\ snr_tab[s1] = snr_tab[s2]
                /\ \A t \in Scanned \ {s1, s2} : snr_tab[t] < snr_tab[s1] )
              => smooth_max = s1
        /\ smooth_max = MinOf({s \in Scanned : snr_tab[s] = TopScore})

\* A step whose score equals the running maximum replaces nothing.
C2_EqualScoreKeepsBest ==
    (pc = "l199" /\ snr_iter = snr_max) => UNCHANGED <<snr_max, smooth_max>>

C3_BestScaleInRange == smooth_max \in 0..max_scale_steps

\* The search returned the last scanned scale as best, after an earlier best.
C3_Witness ==
    Finished /\ max_scale_steps >= 2 /\ smooth_max = max_scale_steps /\ snr_tab[1] > 0

C5_MismatchFailsBeforeBlur ==
    (~Valid /\ pc = "error") =>
        /\ err = "DimensionMismatch"
        /\ blurs = <<>>
        /\ scored = <<>>

C7_Deterministic == (pc = "done" /\ runs >= 1) => Result = prev

\* A re-execution that ended with a non-trivial best.
C7_Witness == Finished /\ runs >= 1 /\ smooth_max >= 1 /\ prev.scale = smooth_max

\* C8: no step of the search changes ks or kappa_true.
C8_InputsUnchanged == [][ks' = ks /\ kappa_true' = kappa_true]_vars

\* The search finished after blurring, with the complex input still unblurred.
C8_Witness ==
    /\ Finished /\ smoothed_ks.sigma >= 1 /\ optimal_ks.sigma >= 1
    /\ ks.sigma = 0 /\ ks.im = 1 /\ kappa_true.sigma = 0

\* On valid inputs the scales blurred and scored so far are 1, 2, ... in
\* order, each once; the search reaches line 203 only with all of
\* 1..max_scale_steps scored; with one step the best score is the greater of
\* 0 and the score of scale 1.
C9_ScanOrder ==
    (Valid /\ max_scale_steps >= 1 /\ pc /= "l194") =>
        /\ CountsUp(scored)
        /\ Len(scored) <= max_scale_steps
        /\ pc \in {"l196enter", "l196", "l197", "l198", "l199", "l203"} =>
              (CountsUp(blurs) /\ Len(blurs) - Len(scored) \in {0, 1})
        /\ pc \in {"l203", "done"} => Len(scored) = max_scale_steps
        /\ pc = "done" => blurs = scored \o <<smooth_max>>
        /\ (pc = "done" /\ max_scale_steps = 1) => snr_max = MaxOf({0, snr_tab[1]})

\* C9: for max_scale_steps = k >= 1 and valid inputs the scan evaluates
\* exactly the scales 1..k, each once and in increasing order, never scale 0,
\* then terminates and returns a best; no best is returned after only part of
\* the candidates has been evaluated.
C9_ScansAllThenReturns ==
    /\ [](C9_ScanOrder)
    /\ (Valid /\ max_scale_steps >= 1 /\ pc = "l194") ~> (pc = "done")

\* A scan of at least two steps that returned.
C9_Witness == Finished /\ max_scale_steps >= 2 /\ Len(scored) = max_scale_steps

\* At the loop head, after `it` steps, the running best score is the maximum of
\* 0 and the scores of scales 1..it.
C10_RunningMaximum ==
    pc = "l196" => snr_max = MaxOf({0} \cup {snr_tab[s] : s \in 1..it})

\* Within an execution the running best score and scale never decrease, and
\* the scale changes exactly when the score strictly increases.
C10_MonotoneStep ==
    pc \notin {"l194", "done"} =>
        /\ snr_max' >= snr_max
        /\ smooth_max' >= smooth_max
        /\ (smooth_max' /= smooth_max) <=> (snr_max' > snr_max)

\* C10: during the scan the running best score and the running best scale
\* never decrease and change only together (the scale changes exactly when the
\* score strictly increases); after step i the running best score is the
\* maximum of 0 and the scores of scales 1..i.
C10_Monotone == [](C10_RunningMaximum) /\ [][C10_MonotoneStep]_vars

\* The running best was raised twice in one scan.
C10_Witness ==
    pc = "l196" /\ it >= 2 /\ snr_tab[1] = 1 /\ snr_max = 2 /\ smooth_max = 2

====
